---- MODULE Spec2Model ----
(***************************************************************************)
(* Somfy RTS decoder (src/devices/somfy.c): somfy_rts_callback as a state  *)
(* machine over one capture.  A capture is an ordered list of bit rows;    *)
(* the callback classifies a row by its length, checks the preamble,       *)
(* Manchester-decodes 56 bits, descrambles, checks the nibble checksum and *)
(* emits one record.                                                       *)
(*                                                                         *)
(* Bit positions are 0-based as in the C code; TLA+ sequences are 1-based, *)
(* so bit p of a row is row[p + 1].  message_bytes is a function on 0..6.  *)
(***************************************************************************)
EXTENDS Integers, Sequences, FiniteSets

\* Largest number of rows in the captures built from ClassRows.
MaxRows == 2

VARIABLES
    origin,                      \* how each row of the capture was transmitted
    bitbuffer,                   \* bitbuffer->bb / bits_per_row: the rows of the capture
    pc,                          \* position inside somfy_rts_callback
    i,                           \* loop index of the row scan and of the descramble loop
    is_retransmission,
    decode_row,
    data_start,
    preamble_pattern,
    preamble_pattern_bit_length,
    bitbuffer_decoded,           \* row 0 of the local bitbuffer_decoded
    message_bytes,
    chksum_calc,
    output,                      \* records handed to decoder_output_data
    result,                      \* return value of the callback
    examined                     \* rows handed to bitbuffer_search / bitbuffer_manchester_decode

vars == << origin, bitbuffer, pc, i, is_retransmission, decode_row, data_start,
           preamble_pattern, preamble_pattern_bit_length, bitbuffer_decoded,
           message_bytes, chksum_calc, output, result, examined >>

(***************************************************************************)
(* Return codes.                                                           *)
(***************************************************************************)
DECODE_FAIL_SANITY == "DECODE_FAIL_SANITY"
DECODE_FAIL_MIC == "DECODE_FAIL_MIC"
RETURN_OK == "1"
RUNNING == "running"

(***************************************************************************)
(* Bit and byte helpers.                                                   *)
(***************************************************************************)
RECURSIVE Xor(_, _)
Xor(a, b) ==
    IF a = 0 /\ b = 0 THEN 0
    ELSE (((a % 2) + (b % 2)) % 2) + 2 * Xor(a \div 2, b \div 2)

\* The 8 bits of a byte, most significant first.
ByteBits(b) == [k \in 1..8 |-> (b \div (2 ^ (8 - k))) % 2]

RECURSIVE BytesToBits(_)
BytesToBits(bytes) ==
    IF bytes = << >> THEN << >>
    ELSE ByteBits(Head(bytes)) \o BytesToBits(Tail(bytes))

\* bit(bits, pos) of bitbuffer.c; storage past the end of a row is zero.
Bit(row, pos) == IF pos < Len(row) THEN row[pos + 1] ELSE 0

Zeros(n) == [k \in 1..n |-> 0]

(***************************************************************************)
(* Transmitter side, from the protocol description in the file comment.    *)
(***************************************************************************)
\* "_^ represents a 1 and ^_ represents a 0"
RECURSIVE ManchesterEncode(_)
ManchesterEncode(bits) ==
    IF bits = << >> THEN << >>
    ELSE (IF Head(bits) = 1 THEN << 0, 1 >> ELSE << 1, 0 >>)
         \o ManchesterEncode(Tail(bits))

\* "The data is scrambled by XORing each following byte with the last
\*  scrambled byte": s[0] = b[0], s[k] = b[k] XOR s[k-1].
RECURSIVE ScrambleUpTo(_, _)
ScrambleUpTo(b, k) ==
    IF k = 0 THEN b[0] ELSE Xor(b[k], ScrambleUpTo(b, k - 1))

Scramble(b) == [k \in 0..6 |-> ScrambleUpTo(b, k)]

\* Byte 1 carries the control nibble and the checksum nibble, "calculated by
\* XORing all nibbles"; bytes 2-3 the counter, bytes 4-6 the address.
NibbleXor(b) == Xor(b \div 16, b % 16)

MakeFrame(seed, control, c2, c3, a4, a5, a6) ==
    LET others == Xor(NibbleXor(seed), Xor(control,
                  Xor(NibbleXor(c2), Xor(NibbleXor(c3),
                  Xor(NibbleXor(a4), Xor(NibbleXor(a5), NibbleXor(a6)))))))
    IN  [k \in 0..6 |->
            CASE k = 0 -> seed
              [] k = 1 -> control * 16 + others
              [] k = 2 -> c2
              [] k = 3 -> c3
              [] k = 4 -> a4
              [] k = 5 -> a5
              [] OTHER -> a6]

\* XOR of all 14 nibbles of a frame: 0 for a frame with a correct checksum.
FrameNibbleXor(m) ==
    Xor(NibbleXor(m[0]), Xor(NibbleXor(m[1]), Xor(NibbleXor(m[2]),
    Xor(NibbleXor(m[3]), Xor(NibbleXor(m[4]), Xor(NibbleXor(m[5]), NibbleXor(m[6])))))))

\* First frames' preamble ^^^^____^^^^____^^^^^^^^_ and the retransmission
\* frames' preamble (seven ^^^^____ groups, then ^^^^^^^^_), as sent.
FirstFramePreamble == BytesToBits(<< 240, 240, 255 >>) \o << 0 >>
RetransmissionPreamble ==
    BytesToBits(<< 240, 240, 240, 240, 240, 240, 240, 255 >>) \o << 0 >>

FlipAt(bits, p) ==
    IF p < 0 THEN bits
    ELSE [k \in 1..Len(bits) |-> IF k = p + 1 THEN 1 - bits[k] ELSE bits[k]]

\* A row descriptor: pre is the preamble sent ("first", "retx", "shift": the
\* first-frame preamble one bit late, "none": no preamble), len the row
\* length, msg the 7 plain bytes, flip the raw data bit that was
\* corrupted (-1: none).
D(pre, len, msg, flip) == [pre |-> pre, len |-> len, msg |-> msg, flip |-> flip]

PreambleOf(d) ==
    CASE d.pre = "first" -> FirstFramePreamble
      [] d.pre = "retx"  -> RetransmissionPreamble
      [] d.pre = "shift" -> << 0 >> \o FirstFramePreamble
      [] OTHER           -> Zeros(25)

BuildRow(d) ==
    LET payload == FlipAt(ManchesterEncode(BytesToBits(
                       [k \in 1..7 |-> Scramble(d.msg)[k - 1]])), d.flip)
        sent    == PreambleOf(d) \o payload \o Zeros(80)
    IN  SubSeq(sent, 1, d.len)

BuildCapture(ds) == [r \in 1..Len(ds) |-> BuildRow(ds[r])]

(***************************************************************************)
(* The captures the callback is run on.                                    *)
(***************************************************************************)
\* Correct frames: one per control code (seed A1, counter 5, address
\* 01 02 03), and three with other seeds, counters and addresses.
Frames ==
    { MakeFrame(161, c, 0, 5, 1, 2, 3) : c \in 0..15 }
    \cup { MakeFrame(0, 2, 255, 255, 171, 205, 239),
           MakeFrame(255, 4, 18, 52, 0, 0, 128),
           MakeFrame(90, 8, 128, 1, 255, 0, 255) }

\* Frames whose checksum does not add up: the checksum nibble off by one,
\* the control nibble changed after the checksum was made, and plain bytes.
BadFrames ==
    { [MakeFrame(161, 2, 0, 5, 1, 2, 3) EXCEPT ![1] = Xor(@, 1)],
      [MakeFrame(161, 2, 0, 5, 1, 2, 3) EXCEPT ![1] = Xor(@, 16)],
      [MakeFrame(0, 2, 255, 255, 171, 205, 239) EXCEPT ![1] = Xor(@, 8)],
      [MakeFrame(255, 4, 18, 52, 0, 0, 128) EXCEPT ![6] = 129],
      [k \in 0..6 |-> 255],
      [k \in 0..6 |-> k + 1],
      [k \in 0..6 |-> 16 * (k + 1)] }

FrameUp == MakeFrame(161, 2, 0, 5, 1, 2, 3)
FrameDown == MakeFrame(255, 4, 18, 52, 0, 0, 128)

\* Rows that differ in length class and preamble, for captures of several rows.
ClassRows ==
    { D("none", 100, FrameUp, -1),
      D("first", 130, FrameUp, -1),
      D("first", 131, FrameUp, -1),
      D("first", 140, FrameUp, -1),
      D("first", 170, FrameDown, -1),
      D("none", 150, FrameUp, -1),
      D("retx", 171, FrameDown, -1),
      D("retx", 180, FrameDown, -1),
      D("first", 180, FrameUp, -1) }

RECURSIVE SeqsUpTo(_, _)
SeqsUpTo(S, n) ==
    IF n = 0 THEN { << >> }
    ELSE LET shorter == SeqsUpTo(S, n - 1)
         IN  shorter \cup { Append(q, x) : q \in shorter, x \in S }

\* Single rows: every frame under both preambles, every single-bit
\* corruption of the 112 raw data bits, every truncation of the data
\* section, and preambles that are late or absent.
SingleRows ==
    { D(p[1], p[2], m, -1) :
         p \in { << "first", 137 >>, << "retx", 177 >> }, m \in Frames \cup BadFrames }
    \cup { D(p[1], p[2], m, f) :
         p \in { << "first", 140 >>, << "retx", 180 >> },
         m \in { FrameUp, FrameDown }, f \in 0..111 }
    \cup { D("first", n, m, -1) : n \in 131..137, m \in { FrameUp, FrameDown } }
    \cup { D("retx", n, m, -1) : n \in 171..177, m \in { FrameUp, FrameDown } }
    \cup { D("shift", 140, FrameUp, -1), D("shift", 180, FrameUp, -1),
           D("none", 180, FrameDown, -1), D("first", 175, FrameDown, -1),
           D("retx", 150, FrameUp, -1) }

Captures == SeqsUpTo(ClassRows, MaxRows) \cup { << d >> : d \in SingleRows }

(***************************************************************************)
(* Library primitives the callback calls (bitbuffer.c, util.c).            *)
(***************************************************************************)
\* Whether the first n bits of pattern sit in row at position p.
MatchesAt(row, p, pattern, n) ==
    /\ p + n <= Len(row)
    /\ \A k \in 0..(n - 1) : row[p + k + 1] = pattern[k + 1]

\* bitbuffer_search: position of the first match at or after start, or the
\* row length when there is none.
bitbuffer_search(row, start, pattern, n) ==
    LET hits == { p \in start..Len(row) : MatchesAt(row, p, pattern, n) }
    IN  IF hits = { } THEN Len(row)
        ELSE CHOOSE p \in hits : \A q \in hits : p <= q

\* bitbuffer_manchester_decode: consumes raw bit pairs from start, at most
\* max data bits, stops at the row end or after a pair of two equal bits;
\* the second bit of a clean pair is the data bit.  Yields the position
\* reached in the input row and the decoded bits.
RECURSIVE ManchesterLoop(_, _, _, _)
ManchesterLoop(row, ipos, len, out) ==
    IF ipos >= len THEN [pos |-> ipos, bits |-> out]
    ELSE LET bit1 == Bit(row, ipos)
             bit2 == Bit(row, ipos + 1)
         IN  IF bit1 = bit2 THEN [pos |-> ipos + 2, bits |-> out]
             ELSE ManchesterLoop(row, ipos + 2, len, Append(out, bit2))

bitbuffer_manchester_decode(row, start, max) ==
    LET len == IF max # 0 /\ Len(row) > start + max * 2
               THEN start + max * 2 ELSE Len(row)
    IN  ManchesterLoop(row, start, len, << >>)

\* bitbuffer_extract_bytes(&bitbuffer_decoded, 0, 0, out, 56): the first 7
\* bytes of the zero-initialised decoded row, most significant bit first.
bitbuffer_extract_bytes(bits) ==
    [k \in 0..6 |->
        LET b(j) == Bit(bits, 8 * k + j)
        IN  128 * b(0) + 64 * b(1) + 32 * b(2) + 16 * b(3)
            + 8 * b(4) + 4 * b(5) + 2 * b(6) + b(7)]

\* xor_bytes(message_bytes, 7)
xor_bytes(m) ==
    Xor(m[0], Xor(m[1], Xor(m[2], Xor(m[3], Xor(m[4], Xor(m[5], m[6]))))))

(***************************************************************************)
(* somfy_rts_callback.                                                     *)
(***************************************************************************)
\* control_str: the label "name (code)" is held as << name, code >>.
control_str ==
    << << "?", 0 >>, << "My", 1 >>, << "Up", 2 >>, << "My + Up", 3 >>,
       << "Down", 4 >>, << "My + Down", 5 >>, << "Up + Down", 6 >>, << "?", 7 >>,
       << "Prog", 8 >>, << "Sun + Flag", 9 >>, << "Flag", 10 >>, << "?", 11 >>,
       << "?", 12 >>, << "?", 13 >>, << "?", 14 >>, << "?", 15 >> >>

\* "%02X": two uppercase hexadecimal digits.
HexDigits ==
    << "0", "1", "2", "3", "4", "5", "6", "7",
       "8", "9", "A", "B", "C", "D", "E", "F" >>

Hex02X(b) == << HexDigits[(b \div 16) + 1], HexDigits[(b % 16) + 1] >>

\* Variant: the high nibble is dropped instead of folded in.
FoldLowNibbleOnly(x) == x % 16

\* (chksum_calc & 0xf) ^ (chksum_calc >> 4)
Fold(x) == Xor(x % 16, x \div 16)

\* Variant: the low nibble of byte 1 is taken as the control code.
ControlOfLowNibble(m) == m[1] % 16

\* (message_bytes[1] & 0xf0) >> 4
ControlOf(m) == (m[1] - (m[1] % 16)) \div 16

\* message_bytes[3] | (message_bytes[2] << 8), kept in a uint16_t
CounterOf(m) == (m[3] + m[2] * 256) % 65536

\* snprintf(address_hex, sizeof(address_hex), "%02X%02X%02X", ...)
AddressHex(m) == Hex02X(m[4]) \o Hex02X(m[5]) \o Hex02X(m[6])

\* Variant: the address bytes composed in big endian order.
AddressIntBe(m) == m[4] * 65536 + m[5] * 256 + m[6]

\* (message_bytes[6] << 16) | (message_bytes[5] << 8) | message_bytes[4]
AddressIntLe(m) == m[6] * 65536 + m[5] * 256 + m[4]

NumRows == Len(bitbuffer)
BitsPerRow(r) == Len(bitbuffer[r + 1])

Init ==
    /\ origin \in Captures
    /\ bitbuffer = BuildCapture(origin)
    /\ pc = "scan"
    /\ i = 0
    /\ is_retransmission = 0
    /\ decode_row = 0
    /\ data_start = 0
    /\ preamble_pattern = << >>
    /\ preamble_pattern_bit_length = 0
    /\ bitbuffer_decoded = << >>
    /\ message_bytes = [k \in 0..6 |-> 0]
    /\ chksum_calc = 0
    /\ output = << >>
    /\ result = RUNNING
    /\ examined = { }

\* Row i is longer than 170 bits: a retransmission; leave the loop.
ScanRetransmission ==
    /\ pc = "scan"
    /\ i < NumRows
    /\ BitsPerRow(i) > 170
    /\ is_retransmission' = 1
    /\ decode_row' = i
    /\ data_start' = 65
    /\ preamble_pattern' = BytesToBits(<< 240, 240, 240, 240, 240, 240, 240, 255 >>)
    /\ preamble_pattern_bit_length' = 64
    /\ pc' = "check"
    /\ UNCHANGED << origin, bitbuffer, i, bitbuffer_decoded, message_bytes,
                    chksum_calc, output, result, examined >>

\* Variant: the first-frame branch without its break, the scan goes on.
ScanFirstFrameNoBreak ==
    /\ pc = "scan"
    /\ i < NumRows
    /\ ~(BitsPerRow(i) > 170)
    /\ BitsPerRow(i) > 130
    /\ is_retransmission' = 0
    /\ decode_row' = i
    /\ data_start' = 25
    /\ preamble_pattern' = BytesToBits(<< 240, 240, 255 >>)
    /\ preamble_pattern_bit_length' = 24
    /\ i' = i + 1
    /\ UNCHANGED << origin, bitbuffer, pc, bitbuffer_decoded, message_bytes,
                    chksum_calc, output, result, examined >>

\* Variant: the first-frame data section taken to start at bit 24.
ScanFirstFrameStart24 ==
    /\ pc = "scan"
    /\ i < NumRows
    /\ ~(BitsPerRow(i) > 170)
    /\ BitsPerRow(i) > 130
    /\ is_retransmission' = 0
    /\ decode_row' = i
    /\ data_start' = 24
    /\ preamble_pattern' = BytesToBits(<< 240, 240, 255 >>)
    /\ preamble_pattern_bit_length' = 24
    /\ pc' = "check"
    /\ UNCHANGED << origin, bitbuffer, i, bitbuffer_decoded, message_bytes,
                    chksum_calc, output, result, examined >>

\* Row i is longer than 130 bits (and not longer than 170): a first frame.
ScanFirstFrame ==
    /\ pc = "scan"
    /\ i < NumRows
    /\ ~(BitsPerRow(i) > 170)
    /\ BitsPerRow(i) > 130
    /\ is_retransmission' = 0
    /\ decode_row' = i
    /\ data_start' = 25
    /\ preamble_pattern' = BytesToBits(<< 240, 240, 255 >>)
    /\ preamble_pattern_bit_length' = 24
    /\ pc' = "check"
    /\ UNCHANGED << origin, bitbuffer, i, bitbuffer_decoded, message_bytes,
                    chksum_calc, output, result, examined >>

\* Row i is no candidate: i++.
ScanNext ==
    /\ pc = "scan"
    /\ i < NumRows
    /\ ~(BitsPerRow(i) > 170)
    /\ ~(BitsPerRow(i) > 130)
    /\ i' = i + 1
    /\ UNCHANGED << origin, bitbuffer, pc, is_retransmission, decode_row,
                    data_start, preamble_pattern, preamble_pattern_bit_length,
                    bitbuffer_decoded, message_bytes, chksum_calc, output,
                    result, examined >>

\* i reached num_rows: the loop ends with nothing selected.
ScanEnd ==
    /\ pc = "scan"
    /\ ~(i < NumRows)
    /\ pc' = "check"
    /\ UNCHANGED << origin, bitbuffer, i, is_retransmission, decode_row,
                    data_start, preamble_pattern, preamble_pattern_bit_length,
                    bitbuffer_decoded, message_bytes, chksum_calc, output,
                    result, examined >>

\* if (data_start == 0) return DECODE_FAIL_SANITY;
NoCandidate ==
    /\ pc = "check"
    /\ data_start = 0
    /\ result' = DECODE_FAIL_SANITY
    /\ pc' = "done"
    /\ UNCHANGED << origin, bitbuffer, i, is_retransmission, decode_row,
                    data_start, preamble_pattern, preamble_pattern_bit_length,
                    bitbuffer_decoded, message_bytes, chksum_calc, output,
                    examined >>

\* Variant: the preamble is accepted wherever in the row it is found.
SearchPreambleAnywhere ==
    /\ pc = "check"
    /\ data_start # 0
    /\ examined' = examined \cup { decode_row }
    /\ IF bitbuffer_search(bitbuffer[decode_row + 1], 0, preamble_pattern,
                           preamble_pattern_bit_length) = BitsPerRow(decode_row)
       THEN /\ result' = DECODE_FAIL_SANITY
            /\ pc' = "done"
       ELSE /\ result' = result
            /\ pc' = "manchester"
    /\ UNCHANGED << origin, bitbuffer, i, is_retransmission, decode_row,
                    data_start, preamble_pattern, preamble_pattern_bit_length,
                    bitbuffer_decoded, message_bytes, chksum_calc, output >>

\* Variant: after a preamble mismatch the scan resumes with the next row.
SearchPreambleRetry ==
    /\ pc = "check"
    /\ data_start # 0
    /\ examined' = examined \cup { decode_row }
    /\ IF bitbuffer_search(bitbuffer[decode_row + 1], 0, preamble_pattern,
                           preamble_pattern_bit_length) # 0
       THEN /\ pc' = "scan"
            /\ i' = decode_row + 1
            /\ data_start' = 0
       ELSE /\ pc' = "manchester"
            /\ i' = i
            /\ data_start' = data_start
    /\ UNCHANGED << origin, bitbuffer, is_retransmission, decode_row,
                    preamble_pattern, preamble_pattern_bit_length,
                    bitbuffer_decoded, message_bytes, chksum_calc, output,
                    result >>

\* if (bitbuffer_search(bitbuffer, decode_row, 0, ...) != 0) return DECODE_FAIL_SANITY;
SearchPreamble ==
    /\ pc = "check"
    /\ data_start # 0
    /\ examined' = examined \cup { decode_row }
    /\ IF bitbuffer_search(bitbuffer[decode_row + 1], 0, preamble_pattern,
                           preamble_pattern_bit_length) # 0
       THEN /\ result' = DECODE_FAIL_SANITY
            /\ pc' = "done"
       ELSE /\ result' = result
            /\ pc' = "manchester"
    /\ UNCHANGED << origin, bitbuffer, i, is_retransmission, decode_row,
                    data_start, preamble_pattern, preamble_pattern_bit_length,
                    bitbuffer_decoded, message_bytes, chksum_calc, output >>

\* if (bitbuffer_manchester_decode(..., data_start, &bitbuffer_decoded, 56) - data_start < 56)
\*     return DECODE_FAIL_MIC;
ManchesterDecode ==
    /\ pc = "manchester"
    /\ examined' = examined \cup { decode_row }
    /\ LET md == bitbuffer_manchester_decode(bitbuffer[decode_row + 1], data_start, 56)
       IN  /\ bitbuffer_decoded' = md.bits
           /\ IF md.pos - data_start < 56
              THEN /\ result' = DECODE_FAIL_MIC
                   /\ pc' = "done"
              ELSE /\ result' = result
                   /\ pc' = "extract"
    /\ UNCHANGED << origin, bitbuffer, i, is_retransmission, decode_row,
                    data_start, preamble_pattern, preamble_pattern_bit_length,
                    message_bytes, chksum_calc, output >>

\* bitbuffer_extract_bytes(&bitbuffer_decoded, 0, 0, message_bytes, 56);
\* then the descramble loop starts at i = 6.
ExtractBytes ==
    /\ pc = "extract"
    /\ message_bytes' = bitbuffer_extract_bytes(bitbuffer_decoded)
    /\ i' = 6
    /\ pc' = "descramble"
    /\ UNCHANGED << origin, bitbuffer, is_retransmission, decode_row,
                    data_start, preamble_pattern, preamble_pattern_bit_length,
                    bitbuffer_decoded, chksum_calc, output, result, examined >>

\* Variant: the loop runs from byte 1 up to byte 6.
DescrambleStepForward ==
    /\ pc = "descramble"
    /\ i > 0
    /\ message_bytes' = [message_bytes EXCEPT
                            ![7 - i] = Xor(message_bytes[7 - i], message_bytes[6 - i])]
    /\ i' = i - 1
    /\ UNCHANGED << origin, bitbuffer, pc, is_retransmission, decode_row,
                    data_start, preamble_pattern, preamble_pattern_bit_length,
                    bitbuffer_decoded, chksum_calc, output, result, examined >>

\* for (int i = 6; i > 0; i--) message_bytes[i] = message_bytes[i] ^ message_bytes[i-1];
DescrambleStep ==
    /\ pc = "descramble"
    /\ i > 0
    /\ message_bytes' = [message_bytes EXCEPT ![i] = Xor(message_bytes[i], message_bytes[i - 1])]
    /\ i' = i - 1
    /\ UNCHANGED << origin, bitbuffer, pc, is_retransmission, decode_row,
                    data_start, preamble_pattern, preamble_pattern_bit_length,
                    bitbuffer_decoded, chksum_calc, output, result, examined >>

\* chksum_calc = xor_bytes(message_bytes, 7), folded to a nibble;
\* if (chksum_calc != 0) return DECODE_FAIL_MIC;
Checksum ==
    /\ pc = "descramble"
    /\ ~(i > 0)
    /\ chksum_calc' = Fold(xor_bytes(message_bytes))
    /\ IF chksum_calc' # 0
       THEN /\ result' = DECODE_FAIL_MIC
            /\ pc' = "done"
       ELSE /\ result' = result
            /\ pc' = "fields"
    /\ UNCHANGED << origin, bitbuffer, i, is_retransmission, decode_row,
                    data_start, preamble_pattern, preamble_pattern_bit_length,
                    bitbuffer_decoded, message_bytes, output, examined >>

\* The field extraction, data_make, decoder_output_data and return 1.
EmitRecord ==
    /\ pc = "fields"
    /\ output' = Append(output,
           [model          |-> "Somfy-RTS",
            id             |-> AddressIntLe(message_bytes),
            control        |-> control_str[ControlOf(message_bytes) + 1],
            counter        |-> CounterOf(message_bytes),
            address        |-> AddressHex(message_bytes),
            retransmission |-> IF is_retransmission # 0 THEN "TRUE" ELSE "FALSE",
            mic            |-> "CHECKSUM"])
    /\ result' = RETURN_OK
    /\ pc' = "done"
    /\ UNCHANGED << origin, bitbuffer, i, is_retransmission, decode_row,
                    data_start, preamble_pattern, preamble_pattern_bit_length,
                    bitbuffer_decoded, message_bytes, chksum_calc, examined >>

Next ==
    \/ ScanRetransmission
    \/ ScanFirstFrame
    \/ ScanNext
    \/ ScanEnd
    \/ NoCandidate
    \/ SearchPreamble
    \/ ManchesterDecode
    \/ ExtractBytes
    \/ DescrambleStep
    \/ Checksum
    \/ EmitRecord

Spec == Init /\ [][Next]_vars

(***************************************************************************)
(* What the claims speak about, stated on the capture itself.              *)
(***************************************************************************)
HasRowOver(n) == \E r \in 0..(NumRows - 1) : BitsPerRow(r) > n

FirstRowOver(n) ==
    CHOOSE r \in 0..(NumRows - 1) :
        /\ BitsPerRow(r) > n
        /\ \A q \in 0..(r - 1) : ~(BitsPerRow(q) > n)

\* The variant's preamble pattern sits at bit offset 0 of the row.
PreambleAtStart(row, retx) ==
    IF retx
    THEN Len(row) >= 64 /\ SubSeq(row, 1, 64) = SubSeq(RetransmissionPreamble, 1, 64)
    ELSE Len(row) >= 24 /\ SubSeq(row, 1, 24) = SubSeq(FirstFramePreamble, 1, 24)

\* Number of logical bits that can be Manchester-decoded from start: raw
\* pairs of two different bits, both inside the row, up to 56.
RECURSIVE CleanPairsFrom(_, _, _)
CleanPairsFrom(row, start, k) ==
    IF k < 56 /\ start + 2 * k + 1 < Len(row)
              /\ row[start + 2 * k + 1] # row[start + 2 * k + 2]
    THEN CleanPairsFrom(row, start, k + 1)
    ELSE k

CleanPairs(row, start) == CleanPairsFrom(row, start, 0)

\* The row the Row Classifier picks, and how it was transmitted.
CandidateRow == bitbuffer[FirstRowOver(130) + 1]
CandidateIsRetx == Len(CandidateRow) > 170
CandidateStart == IF CandidateIsRetx THEN 65 ELSE 25
CandidateOrigin == origin[FirstRowOver(130) + 1]

\* The candidate has its preamble at offset 0 and 56 decodable bits.
CandidateComplete ==
    /\ PreambleAtStart(CandidateRow, CandidateIsRetx)
    /\ CleanPairs(CandidateRow, CandidateStart) >= 56

\* A row sent as a correct frame: preamble, then the whole Manchester-encoded
\* scrambled payload of a frame whose checksum adds up, nothing corrupted.
SentAsFirstFrame(d) ==
    /\ d.pre = "first" /\ d.flip = -1 /\ d.len > 130 /\ d.len >= 25 + 112
    /\ FrameNibbleXor(d.msg) = 0

SentAsRetransmission(d) ==
    /\ d.pre = "retx" /\ d.flip = -1 /\ d.len > 170 /\ d.len >= 65 + 112
    /\ FrameNibbleXor(d.msg) = 0

Classified == pc # "scan"

RetxSettings ==
    /\ is_retransmission = 1 /\ data_start = 65
    /\ preamble_pattern_bit_length = 64
    /\ preamble_pattern = SubSeq(RetransmissionPreamble, 1, 64)

FirstSettings ==
    /\ is_retransmission = 0 /\ data_start = 25
    /\ preamble_pattern_bit_length = 24
    /\ preamble_pattern = SubSeq(FirstFramePreamble, 1, 24)

(***************************************************************************)
(* C1                                                                      *)
(***************************************************************************)
\* C1 as stated: the classifier selects the first row longer than 170 bits
\* as a retransmission, and only when no row is longer than 170 bits the
\* first row longer than 130 bits as a first frame.
C1_RetransmissionRowsFirst ==
    Classified =>
        IF HasRowOver(170)
        THEN decode_row = FirstRowOver(170) /\ RetxSettings
        ELSE IF HasRowOver(130)
             THEN decode_row = FirstRowOver(130) /\ FirstSettings
             ELSE data_start = 0

\* C1 amended: the classifier selects the first row in row order longer than
\* 130 bits; the variant is Retransmission when that row is longer than 170
\* bits and First frame otherwise; nothing is selected when no row is
\* longer than 130 bits.
C1_FirstCandidateWins ==
    Classified =>
        IF HasRowOver(130)
        THEN /\ decode_row = FirstRowOver(130)
             /\ IF BitsPerRow(FirstRowOver(130)) > 170
                THEN RetxSettings ELSE FirstSettings
        ELSE data_start = 0

\* A first-frame-length row precedes a retransmission-length row and is selected.
C1_Witness ==
    /\ Classified
    /\ HasRowOver(170)
    /\ FirstRowOver(130) < FirstRowOver(170)
    /\ decode_row = FirstRowOver(130)
    /\ is_retransmission = 0

(***************************************************************************)
(* C2                                                                      *)
(***************************************************************************)
\* C2: when the selected row has its preamble at offset 0 and fewer than 56
\* logical bits can be Manchester-decoded from data_start, the call returns
\* DECODE_FAIL_MIC and never reaches byte extraction, descrambling, the
\* checksum or the output.
C2_IncompleteDecodeFails ==
    ( /\ pc \notin { "scan", "check" }
      /\ data_start # 0
      /\ PreambleAtStart(bitbuffer[decode_row + 1], is_retransmission = 1)
      /\ CleanPairs(bitbuffer[decode_row + 1], data_start) < 56 )
    => /\ pc \in { "manchester", "done" }
       /\ pc = "done" => (result = DECODE_FAIL_MIC /\ output = << >>)

(***************************************************************************)
(* C3                                                                      *)
(***************************************************************************)
\* C3 as stated: a row longer than 130 bits sent as a correct first frame
\* decodes with retransmission FALSE, and a row longer than 170 bits sent as
\* a correct retransmission decodes with retransmission TRUE.
C3_ValidFramesDecode ==
    (pc = "done" /\ HasRowOver(130)) =>
        /\ SentAsFirstFrame(CandidateOrigin) =>
              /\ result = RETURN_OK
              /\ Len(output) = 1 /\ output[1].retransmission = "FALSE"
        /\ SentAsRetransmission(CandidateOrigin) =>
              /\ result = RETURN_OK
              /\ Len(output) = 1 /\ output[1].retransmission = "TRUE"

\* C3 amended: the first-frame half holds for rows longer than 130 and not
\* longer than 170 bits (the row being the first of its capture longer than
\* 130 bits); the retransmission half holds as stated.
C3_ValidFramesDecodeUpTo170 ==
    (pc = "done" /\ HasRowOver(130)) =>
        /\ (SentAsFirstFrame(CandidateOrigin) /\ CandidateOrigin.len <= 170) =>
              /\ result = RETURN_OK
              /\ Len(output) = 1 /\ output[1].retransmission = "FALSE"
        /\ SentAsRetransmission(CandidateOrigin) =>
              /\ result = RETURN_OK
              /\ Len(output) = 1 /\ output[1].retransmission = "TRUE"

\* A correct first frame in a row of exactly 170 bits has been decoded.
C3_Witness ==
    /\ pc = "done" /\ HasRowOver(130)
    /\ SentAsFirstFrame(CandidateOrigin) /\ CandidateOrigin.len = 170
    /\ result = RETURN_OK
    /\ output[1].retransmission = "FALSE"

(***************************************************************************)
(* C4                                                                      *)
(***************************************************************************)
\* C4: a row that decodes successfully, with any single one of its 112 raw
\* payload bits flipped, does not decode successfully.
C4_SingleFlipRejected ==
    ( /\ pc = "done" /\ HasRowOver(130)
      /\ CandidateOrigin.flip >= 0
      /\ \/ ( /\ SentAsFirstFrame([CandidateOrigin EXCEPT !.flip = -1])
              /\ CandidateOrigin.len <= 170 )
         \/ SentAsRetransmission([CandidateOrigin EXCEPT !.flip = -1]) )
    => result # RETURN_OK

(***************************************************************************)
(* C5                                                                      *)
(***************************************************************************)
\* C5: when the selected row has the preamble and a complete 56-bit decode,
\* a frame whose nibbles do not XOR to 0 is rejected with DECODE_FAIL_MIC
\* and no record; a record is emitted only when the folded XOR is 0.
C5_ChecksumGuardsOutput ==
    /\ (pc = "done" /\ HasRowOver(130) /\ CandidateComplete) =>
          /\ FrameNibbleXor(CandidateOrigin.msg) # 0 =>
                (result = DECODE_FAIL_MIC /\ output = << >>)
          /\ output # << >> => FrameNibbleXor(CandidateOrigin.msg) = 0
    /\ output # << >> =>
          (FrameNibbleXor(message_bytes) = 0 /\ result = RETURN_OK)

\* The frame whose checksum nibble is off by one has been rejected.
C5_Witness ==
    /\ pc = "done" /\ HasRowOver(130) /\ CandidateComplete
    /\ CandidateOrigin.msg = [FrameUp EXCEPT ![1] = Xor(@, 1)]
    /\ result = DECODE_FAIL_MIC
    /\ output = << >>

(***************************************************************************)
(* C6                                                                      *)
(***************************************************************************)
\* C6: the call returns DECODE_FAIL_SANITY exactly when no row is longer
\* than 130 bits or the selected row does not carry its variant's preamble
\* at bit offset 0.
C6_SanityFailExactly ==
    pc = "done" =>
        ( result = DECODE_FAIL_SANITY
          <=> \/ ~HasRowOver(130)
              \/ ~PreambleAtStart(CandidateRow, CandidateIsRetx) )

\* A row with the first-frame preamble only at bit offset 1 has been rejected.
C6_Witness ==
    /\ pc = "done" /\ HasRowOver(130)
    /\ ~CandidateIsRetx
    /\ ~PreambleAtStart(CandidateRow, FALSE)
    /\ MatchesAt(CandidateRow, 1, FirstFramePreamble, 24)
    /\ result = DECODE_FAIL_SANITY

(***************************************************************************)
(* C7                                                                      *)
(***************************************************************************)
\* C7: the descramble loop undoes the scrambler: when the bytes received
\* are Scramble(b), the bytes after the loop are b.
C7_DescrambleInvertsScramble ==
    ( /\ pc = "descramble" /\ i = 0
      /\ CandidateComplete /\ CandidateOrigin.flip = -1 )
    => message_bytes = CandidateOrigin.msg

\* The loop has run on a frame that scrambling changes.
C7_Witness ==
    /\ pc = "descramble" /\ i = 0
    /\ CandidateComplete /\ CandidateOrigin.flip = -1
    /\ bitbuffer_extract_bytes(bitbuffer_decoded) = Scramble(CandidateOrigin.msg)
    /\ Scramble(CandidateOrigin.msg) # CandidateOrigin.msg
    /\ message_bytes = CandidateOrigin.msg

(***************************************************************************)
(* C8                                                                      *)
(***************************************************************************)
HexValue(c) == CHOOSE n \in 0..15 : HexDigits[n + 1] = c

\* The k-th byte (1..3) written in a string of six hexadecimal digits.
HexByte(str, k) == 16 * HexValue(str[2 * k - 1]) + HexValue(str[2 * k])

\* C8: address is bytes 4, 5, 6 in that order as six uppercase hexadecimal
\* digits, and id is the same three bytes in the reverse order:
\* byte6 << 16 | byte5 << 8 | byte4.
C8_IdReversesAddress ==
    (pc = "done" /\ result = RETURN_OK) =>
        LET out == output[1]
        IN  /\ Len(out.address) = 6
            /\ \A k \in 1..6 : \E n \in 1..16 : out.address[k] = HexDigits[n]
            /\ HexByte(out.address, 1) = message_bytes[4]
            /\ HexByte(out.address, 2) = message_bytes[5]
            /\ HexByte(out.address, 3) = message_bytes[6]
            /\ out.id = HexByte(out.address, 3) * 65536
                        + HexByte(out.address, 2) * 256
                        + HexByte(out.address, 1)
            /\ (CandidateComplete /\ CandidateOrigin.flip = -1) =>
                  \A k \in 4..6 : message_bytes[k] = CandidateOrigin.msg[k]

\* Address bytes 01 02 03 have given address "010203" and id 0x030201.
C8_Witness ==
    /\ pc = "done" /\ result = RETURN_OK
    /\ CandidateComplete /\ CandidateOrigin.flip = -1
    /\ output[1].address = << "0", "1", "0", "2", "0", "3" >>
    /\ output[1].id = 197121

(***************************************************************************)
(* C9                                                                      *)
(***************************************************************************)
\* The control code sent, for a complete row; else the one the bytes hold.
ControlCode ==
    IF CandidateComplete /\ CandidateOrigin.flip = -1
    THEN CandidateOrigin.msg[1] \div 16
    ELSE message_bytes[1] \div 16

LabelLookup ==
    LET out == output[1]
    IN  /\ ControlCode \in 0..15
        /\ Len(control_str) = 16
        /\ out.control = control_str[ControlCode + 1]
        /\ out.control[2] = ControlCode
        /\ ControlCode = 1 => out.control[1] = "My"
        /\ ControlCode = 2 => out.control[1] = "Up"
        /\ ControlCode = 4 => out.control[1] = "Down"
        /\ ControlCode = 8 => out.control[1] = "Prog"
        /\ ControlCode = 9 => out.control[1] = "Sun + Flag"
        /\ ControlCode = 10 => out.control[1] = "Flag"

\* C9 as stated: the label is control_str[control code]; codes 0, 7, 11, 12,
\* 13 and 14 give the placeholder "?" and every other code a named command.
C9_PlaceholderCodes ==
    (pc = "done" /\ result = RETURN_OK) =>
        /\ LabelLookup
        /\ output[1].control[1] = "?" <=> ControlCode \in { 0, 7, 11, 12, 13, 14 }

\* C9 amended: codes 0, 7, 11, 12, 13, 14 and 15 give the placeholder "?"
\* and every other code a named command.
C9_PlaceholderCodesWith15 ==
    (pc = "done" /\ result = RETURN_OK) =>
        /\ LabelLookup
        /\ output[1].control[1] = "?" <=> ControlCode \in { 0, 7, 11, 12, 13, 14, 15 }

\* A frame with control code 15 has been decoded to the placeholder label.
C9_Witness ==
    /\ pc = "done" /\ result = RETURN_OK
    /\ CandidateComplete /\ CandidateOrigin.flip = -1
    /\ CandidateOrigin.msg[1] \div 16 = 15
    /\ output[1].control = << "?", 15 >>

(***************************************************************************)
(* C10                                                                     *)
(***************************************************************************)
\* C10: only the row selected by the classifier is ever handed to the
\* preamble search or the Manchester decoder, and a failure on it ends the
\* call with that failure and no record, whatever the later rows hold.
C10_OneRowOnly ==
    /\ Cardinality(examined) <= 1
    /\ IF HasRowOver(130)
       THEN examined \subseteq { FirstRowOver(130) }
       ELSE examined = { }
    /\ (pc = "done" /\ result # RETURN_OK) =>
          (result \in { DECODE_FAIL_SANITY, DECODE_FAIL_MIC } /\ output = << >>)
    /\ (pc = "done" /\ HasRowOver(130)
          /\ ~PreambleAtStart(CandidateRow, CandidateIsRetx)) =>
          (result = DECODE_FAIL_SANITY /\ examined = { FirstRowOver(130) })

\* The selected row has failed while a later row of the capture is a
\* correct frame.
C10_Witness ==
    /\ pc = "done"
    /\ result \in { DECODE_FAIL_SANITY, DECODE_FAIL_MIC }
    /\ examined = { decode_row }
    /\ \E r \in (decode_row + 1)..(NumRows - 1) :
          \/ SentAsFirstFrame(origin[r + 1]) /\ origin[r + 1].len <= 170
          \/ SentAsRetransmission(origin[r + 1])

====
